---- MODULE Spec2Model ----
(***************************************************************************)
(* Model of the measles case tracker (src/app_GSver.py).                   *)
(*                                                                         *)
(* Three specifications share the variables:                               *)
(*   FnSpec  the logic helpers clean_id, parse_mykad_dob and               *)
(*           calculate_age_display applied to inputs drawn in FnInit,      *)
(*           under a wall clock that moves between calls;                  *)
(*   FormSpec one run of the clinician's form from the MyKad field to the  *)
(*           under-18 test, the helpers called in the order of the script; *)
(*   Spec    the record workflow on the "Cases" worksheet: the clinician   *)
(*           submission and the epidemiologist finalization, in which      *)
(*           update_case writes one cell per request; every state in       *)
(*           between is what a load_data in another session returns.       *)
(*                                                                         *)
(* Strings that the code inspects character by character are sequences of  *)
(* one-character strings.  Python's None is a sentinel of the same shape   *)
(* as the values it stands in for.                                         *)
(***************************************************************************)
EXTENDS Integers, Sequences, FiniteSets, TLC

VARIABLES
    now,       \* the wall clock read by datetime.now()
    fn,        \* FnSpec: the helper under evaluation
    arg,       \* FnSpec: its argument
    ret,       \* FnSpec: its last return value (meaningful when evals > 0)
    today,     \* FnSpec: the clock value read by the last call
    prev,      \* FnSpec: the return value of the evaluation before the last
    evals,     \* FnSpec: number of evaluations of fn(arg) so far
    ticks,     \* number of midnights passed
    secs,      \* the wall clock's time of day, in seconds
    form,      \* FormSpec: the locals of one run of the clinician's form
    sheet,     \* Spec: rows of the worksheet below the header row
    epc,       \* Spec: position of the epidemiologist's script run
    sel_id,    \* Spec: the ID taken from the selected list entry
    sel_row,   \* Spec: the row of df the selected list entry came from
    row_num,   \* Spec: update_case's cell.row
    updates,   \* Spec: the updates dict of the finalize handler
    next_key   \* Spec: index of the next key of updates to write

vars == <<now, secs, form, fn, arg, ret, today, prev, evals, ticks,
          sheet, epc, sel_id, sel_row, row_num, updates, next_key>>

fnVars == <<fn, arg, ret, today, prev, evals>>
helperVars == <<form, fn, arg, ret, today, prev, evals>>
wfVars == <<sheet, epc, sel_id, sel_row, row_num, updates, next_key>>

----------------------------------------------------------------------------
(* Bounds *)

MaxTicks == 1        \* midnights per behaviour
MaxSecs  == 1        \* seconds the clock advances in a workflow behaviour
MaxEvals == 2        \* evaluations of one helper call per behaviour
MaxRows  == 2        \* rows appended to the worksheet

----------------------------------------------------------------------------
(* Characters, integers and their textual forms *)

DigitChars == <<"0", "1", "2", "3", "4", "5", "6", "7", "8", "9">>

IsDigitChar(c) == \E i \in 1..10 : DigitChars[i] = c

DigitVal(c) == (CHOOSE i \in 1..10 : DigitChars[i] = c) - 1

\* str.isdigit(): false for the empty string
isdigit(s) == Len(s) > 0 /\ \A i \in 1..Len(s) : IsDigitChar(s[i])

\* int(s) for a string of decimal digits
RECURSIVE int(_)
int(s) ==
    IF Len(s) = 0 THEN 0
    ELSE 10 * int(SubSeq(s, 1, Len(s) - 1)) + DigitVal(s[Len(s)])

\* str(n) / f"{n}" for an integer
RECURSIVE NatToStr(_)
NatToStr(n) ==
    IF n < 10 THEN <<DigitChars[n + 1]>>
    ELSE NatToStr(n \div 10) \o <<DigitChars[(n % 10) + 1]>>

IntToStr(n) == IF n < 0 THEN <<"-">> \o NatToStr(0 - n) ELSE NatToStr(n)

\* zero-padded field of width w, as strftime writes %y %m %d %H %M %S %Y
RECURSIVE ZeroPad(_, _)
ZeroPad(s, w) == IF Len(s) >= w THEN s ELSE ZeroPad(<<"0">> \o s, w)

\* str.replace(old, "") for a one-character old
RECURSIVE replace(_, _)
replace(s, old) ==
    IF Len(s) = 0 THEN <<>>
    ELSE IF Head(s) = old THEN replace(Tail(s), old)
         ELSE <<Head(s)>> \o replace(Tail(s), old)

----------------------------------------------------------------------------
(* Calendar dates: datetime.date *)

None == <<"<None>">>                               \* None where a str is expected
NoDate == [year |-> 0, month |-> 0, day |-> 0]     \* None where a date is expected

Date(y, m, d) == [year |-> y, month |-> m, day |-> d]

IsLeap(y) == (y % 4 = 0 /\ y % 100 # 0) \/ y % 400 = 0

DaysInMonth(y, m) ==
    IF m = 2 THEN (IF IsLeap(y) THEN 29 ELSE 28)
    ELSE IF m \in {4, 6, 9, 11} THEN 30 ELSE 31

\* the date constructor accepts exactly these
IsValidDate(y, m, d) ==
    /\ y \in 1..9999
    /\ m \in 1..12
    /\ d \in 1..DaysInMonth(y, m)

NextDay(d) ==
    IF d.day < DaysInMonth(d.year, d.month) THEN [d EXCEPT !.day = d.day + 1]
    ELSE IF d.month < 12 THEN Date(d.year, d.month + 1, 1)
    ELSE Date(d.year + 1, 1, 1)

\* chronological order on dates
DateLeq(a, b) ==
    \/ a.year < b.year
    \/ a.year = b.year /\ a.month < b.month
    \/ a.year = b.year /\ a.month = b.month /\ a.day <= b.day

\* strptime with the day checked against 1..31 only
strptime_AnyDayUpTo31(s) ==
    IF /\ Len(s) = 10
       /\ s[5] = "-" /\ s[8] = "-"
       /\ isdigit(SubSeq(s, 1, 4)) /\ isdigit(SubSeq(s, 6, 7))
       /\ isdigit(SubSeq(s, 9, 10))
       /\ int(SubSeq(s, 6, 7)) \in 1..12
       /\ int(SubSeq(s, 9, 10)) \in 1..31
    THEN Date(int(SubSeq(s, 1, 4)), int(SubSeq(s, 6, 7)), int(SubSeq(s, 9, 10)))
    ELSE NoDate

\* datetime.strptime(s, "%Y-%m-%d").date(); ValueError is the value NoDate,
\* which the only caller turns into None
strptime(s) ==
    IF /\ Len(s) = 10
       /\ s[5] = "-" /\ s[8] = "-"
       /\ isdigit(SubSeq(s, 1, 4)) /\ isdigit(SubSeq(s, 6, 7))
       /\ isdigit(SubSeq(s, 9, 10))
       /\ int(SubSeq(s, 6, 7)) \in 1..12
       /\ int(SubSeq(s, 9, 10)) \in 1..31
       /\ IsValidDate(int(SubSeq(s, 1, 4)), int(SubSeq(s, 6, 7)),
                      int(SubSeq(s, 9, 10)))
    THEN Date(int(SubSeq(s, 1, 4)), int(SubSeq(s, 6, 7)), int(SubSeq(s, 9, 10)))
    ELSE NoDate

\* datetime.now().strftime("%y")
strftime_y(t) == ZeroPad(NatToStr(t.year % 100), 2)

----------------------------------------------------------------------------
(* Logic helpers *)

\* clean_id removing hyphens only
clean_id_HyphensOnly(id_str) ==
    IF id_str # None /\ id_str # <<>>
    THEN replace(id_str, "-")
    ELSE <<>>

clean_id(id_str) ==
    IF id_str # None /\ id_str # <<>>
    THEN replace(replace(id_str, "-"), " ")
    ELSE <<>>

\* parse_mykad_dob with < in place of <= in the century test
parse_mykad_dob_StrictLess(mykad, clock) ==
    LET clean == clean_id(mykad) IN
    IF Len(clean) = 12 /\ isdigit(clean)
    THEN LET year_prefix == SubSeq(clean, 1, 2)
             month == SubSeq(clean, 3, 4)
             day == SubSeq(clean, 5, 6)
             current_year_short == int(strftime_y(clock))
             full_year == IF int(year_prefix) < current_year_short
                          THEN <<"2", "0">> \o year_prefix
                          ELSE <<"1", "9">> \o year_prefix
         IN strptime(full_year \o <<"-">> \o month \o <<"-">> \o day)
    ELSE NoDate

\* parse_mykad_dob with the century test inverted
parse_mykad_dob_Inverted(mykad, clock) ==
    LET clean == clean_id(mykad) IN
    IF Len(clean) = 12 /\ isdigit(clean)
    THEN LET year_prefix == SubSeq(clean, 1, 2)
             month == SubSeq(clean, 3, 4)
             day == SubSeq(clean, 5, 6)
             current_year_short == int(strftime_y(clock))
             full_year == IF int(year_prefix) > current_year_short
                          THEN <<"2", "0">> \o year_prefix
                          ELSE <<"1", "9">> \o year_prefix
         IN strptime(full_year \o <<"-">> \o month \o <<"-">> \o day)
    ELSE NoDate

parse_mykad_dob(mykad, clock) ==
    LET clean == clean_id(mykad) IN
    IF Len(clean) = 12 /\ isdigit(clean)
    THEN LET year_prefix == SubSeq(clean, 1, 2)
             month == SubSeq(clean, 3, 4)
             day == SubSeq(clean, 5, 6)
             current_year_short == int(strftime_y(clock))
             full_year == IF int(year_prefix) <= current_year_short
                          THEN <<"2", "0">> \o year_prefix
                          ELSE <<"1", "9">> \o year_prefix
         IN strptime(full_year \o <<"-">> \o month \o <<"-">> \o day)
    ELSE NoDate

\* age_breakdown with <= in place of < in the day test
age_breakdown_DayLeq(dob, clock) ==
    LET years == clock.year - dob.year
        months == clock.month - dob.month
        months_1 == IF clock.day <= dob.day THEN months - 1 ELSE months
    IN IF months_1 < 0
       THEN [years |-> years - 1, months |-> months_1 + 12]
       ELSE [years |-> years, months |-> months_1]

\* age_breakdown borrowing a year without adding the twelve months
age_breakdown_NoCarry(dob, clock) ==
    LET years == clock.year - dob.year
        months == clock.month - dob.month
        months_1 == IF clock.day < dob.day THEN months - 1 ELSE months
    IN IF months_1 < 0
       THEN [years |-> years - 1, months |-> months_1]
       ELSE [years |-> years, months |-> months_1]

\* years and months as lines 108-115 leave them
age_breakdown(dob, clock) ==
    LET years == clock.year - dob.year
        months == clock.month - dob.month
        months_1 == IF clock.day < dob.day THEN months - 1 ELSE months
    IN IF months_1 < 0
       THEN [years |-> years - 1, months |-> months_1 + 12]
       ELSE [years |-> years, months |-> months_1]

\* f"{years} years, {months} months"
calculate_age_display(dob, clock) ==
    IF dob = NoDate THEN <<>>
    ELSE IntToStr(age_breakdown(dob, clock).years)
         \o <<" ", "y", "e", "a", "r", "s", ",", " ">>
         \o IntToStr(age_breakdown(dob, clock).months)
         \o <<" ", "m", "o", "n", "t", "h", "s">>

\* str.split(" "): the tokens between single spaces
RECURSIVE split(_)
split(s) ==
    IF \A i \in 1..Len(s) : s[i] # " " THEN <<s>>
    ELSE LET k == CHOOSE i \in 1..Len(s) :
                      s[i] = " " /\ \A j \in 1..(i - 1) : s[j] # " "
         IN <<SubSeq(s, 1, k - 1)>> \o split(SubSeq(s, k + 1, Len(s)))

\* int(tok) for an optionally signed decimal token
signed_int(tok) ==
    IF Len(tok) > 0 /\ Head(tok) = "-" THEN 0 - int(Tail(tok)) ELSE int(tok)

----------------------------------------------------------------------------
(* FnSpec: the helpers applied to drawn inputs under a moving clock *)

Fns == {"clean_id", "parse_mykad_dob", "calculate_age_display"}

\* the dates the clock starts at
RefDates == {Date(2000, 1, 1), Date(2024, 1, 15), Date(2024, 6, 1),
             Date(2024, 6, 15), Date(2024, 12, 31), Date(2099, 12, 31)}

YearSuffixes == {<<"0", "0">>, <<"2", "4">>, <<"2", "5">>, <<"8", "5">>,
                 <<"9", "9">>}
MonthFields == {<<"0", "0">>, <<"0", "2">>, <<"0", "6">>, <<"1", "2">>,
                <<"1", "3">>}
DayFields == {<<"0", "0">>, <<"0", "1">>, <<"1", "5">>, <<"2", "9">>,
              <<"3", "0">>, <<"3", "1">>}
IdTail == <<"0", "7", "1", "2", "3", "4">>

\* twelve-digit identifiers
PlainIds == {yy \o mm \o dd \o IdTail :
                yy \in YearSuffixes, mm \in MonthFields, dd \in DayFields}

\* identifiers as users type them: separators, missing, extra and wrong characters
TypedIds(s) ==
    { SubSeq(s, 1, 6) \o <<"-">> \o SubSeq(s, 7, 8) \o <<"-">> \o SubSeq(s, 9, 12),
      <<" ">> \o s,
      SubSeq(s, 1, 6) \o <<"-">> \o SubSeq(s, 7, 11),
      SubSeq(s, 1, 11),
      s \o <<"5">>,
      SubSeq(s, 1, 11) \o <<"a">> }

IdArgs ==
    {None, <<>>} \cup PlainIds
    \cup UNION {TypedIds(yy \o mm \o <<"1", "5">> \o IdTail) :
                   yy \in YearSuffixes, mm \in {<<"0", "6">>, <<"1", "3">>}}

\* dates of birth as the date picker supplies them, None when nothing is picked
DobArgs ==
    {NoDate} \cup
    {dt \in {Date(y, m, d) : y \in {1985, 2023, 2024, 2025},
                            m \in {1, 2, 6, 12},
                            d \in {1, 15, 29, 31}} :
        IsValidDate(dt.year, dt.month, dt.day)}

ArgsOf(f) == IF f = "calculate_age_display" THEN DobArgs ELSE IdArgs

\* the form's locals before the script reaches them
FormBlank ==
    [pc |-> "idle", mykad_raw |-> <<>>, mykad |-> <<>>, auto_dob |-> NoDate,
     parse_today |-> NoDate, dob |-> NoDate, age_today |-> NoDate,
     age_str |-> <<>>, years_old |-> 0, is_underage |-> FALSE]

WfIdle ==
    /\ form = FormBlank
    /\ sheet = <<>>
    /\ epc = "idle"
    /\ sel_id = <<>>
    /\ sel_row = 0
    /\ row_num = 0
    /\ updates = <<>>
    /\ next_key = 0

FnInit ==
    /\ now \in RefDates
    /\ secs = 0
    /\ fn \in Fns
    /\ arg \in ArgsOf(fn)
    /\ ret = <<>>
    /\ prev = <<>>
    /\ today = NoDate
    /\ evals = 0
    /\ ticks = 0
    /\ WfIdle

Returns(value, clock) ==
    /\ evals < MaxEvals
    /\ prev' = ret
    /\ ret' = value
    /\ today' = clock
    /\ evals' = evals + 1
    /\ UNCHANGED <<now, secs, form, fn, arg, ticks>>
    /\ UNCHANGED wfVars

Call_clean_id ==
    /\ fn = "clean_id"
    /\ Returns(clean_id(arg), NoDate)

Call_parse_mykad_dob ==
    /\ fn = "parse_mykad_dob"
    /\ Returns(parse_mykad_dob(arg, now), now)

Call_calculate_age_display ==
    /\ fn = "calculate_age_display"
    /\ Returns(calculate_age_display(arg, now), now)

\* midnight passes
TickDay ==
    /\ ticks < MaxTicks
    /\ now' = NextDay(now)
    /\ ticks' = ticks + 1
    /\ UNCHANGED secs
    /\ UNCHANGED helperVars
    /\ UNCHANGED wfVars

FnNext ==
    \/ Call_clean_id
    \/ Call_parse_mykad_dob
    \/ Call_calculate_age_display
    \/ TickDay

FnSpec == FnInit /\ [][FnNext]_vars

----------------------------------------------------------------------------
(* FormSpec: one run of the clinician's form, lines 168-201 *)

\* what st.text_input returns for the MyKad field: a str, "" when left empty
FormInputs == IdArgs \ {None}

\* dates the clinician picks in the date field instead of the default
FormDobPicks == {Date(1985, 6, 15), Date(2025, 1, 1)}

FormInit ==
    /\ now \in RefDates
    /\ secs = 0
    /\ fn = "clean_id"
    /\ arg = <<>>
    /\ ret = <<>>
    /\ prev = <<>>
    /\ today = NoDate
    /\ evals = 0
    /\ ticks = 0
    /\ sheet = <<>>
    /\ epc = "idle"
    /\ sel_id = <<>>
    /\ sel_row = 0
    /\ row_num = 0
    /\ updates = <<>>
    /\ next_key = 0
    /\ \E raw \in FormInputs : form = [FormBlank EXCEPT !.pc = "mykad", !.mykad_raw = raw]

FormFrame ==
    /\ UNCHANGED <<now, secs, ticks>>
    /\ UNCHANGED fnVars
    /\ UNCHANGED wfVars

\* mykad = clean_id(mykad_raw); auto_dob = parse_mykad_dob(mykad)
FormParse ==
    /\ form.pc = "mykad"
    /\ form' = [form EXCEPT !.pc = "dob",
                            !.mykad = clean_id(form.mykad_raw),
                            !.auto_dob = parse_mykad_dob(clean_id(form.mykad_raw), now),
                            !.parse_today = now]
    /\ FormFrame

\* dob = c6.date_input(..., value=auto_dob if auto_dob else None): the default,
\* or a date the clinician picks
FormDateInput ==
    /\ form.pc = "dob"
    /\ \E picked \in {form.auto_dob} \cup FormDobPicks :
           form' = [form EXCEPT !.pc = "age", !.dob = picked]
    /\ FormFrame

\* age_str = calculate_age_display(dob) and the under-18 test on its first token
FormAge ==
    /\ form.pc = "age"
    /\ LET age_str == calculate_age_display(form.dob, now)
           years_old == signed_int(split(age_str)[1])
       IN form' = [form EXCEPT !.pc = "done",
                               !.age_today = now,
                               !.age_str = age_str,
                               !.years_old = IF form.dob # NoDate THEN years_old ELSE 0,
                               !.is_underage = IF form.dob # NoDate
                                               THEN years_old < 18 ELSE FALSE]
    /\ FormFrame

FormNext ==
    \/ FormParse
    \/ FormDateInput
    \/ FormAge
    \/ TickDay

FormSpec == FormInit /\ [][FormNext]_vars

----------------------------------------------------------------------------
(* Properties of the helpers, checked under FnSpec *)

NotSeparator(c) == c # "-" /\ c # " "

\* the characters of an input other than hyphens and spaces, in order
Normalized(a) == IF a = None THEN <<>> ELSE SelectSeq(a, NotSeparator)

AllDigits12(s) ==
    /\ s # None
    /\ Len(s) = 12
    /\ \A i \in 1..12 : s[i] \in {"0", "1", "2", "3", "4", "5", "6", "7", "8", "9"}

\* the number written by the two digits at positions i and i + 1
TwoDigits(s, i) == 10 * DigitVal(s[i]) + DigitVal(s[i + 1])

MonthLengths == <<31, 28, 31, 30, 31, 30, 31, 31, 30, 31, 30, 31>>

\* (yy, m, d) is a day of the calendar; 19yy and 20yy are leap together and
\* suffix 00 only ever decodes to 2000
RealCalendarDay(yy, m, d) ==
    /\ m \in 1..12
    /\ d >= 1
    /\ d <= (IF m = 2 /\ yy % 4 = 0 THEN 29 ELSE MonthLengths[m])

FirstSixAreADate(s) ==
    AllDigits12(s) /\ RealCalendarDay(TwoDigits(s, 1), TwoDigits(s, 3), TwoDigits(s, 5))

Parsed == fn = "parse_mykad_dob" /\ evals > 0
Cleaned == fn = "clean_id" /\ evals > 0
Aged == fn = "calculate_age_display" /\ evals > 0

\* C2 as stated: parse_mykad_dob returns no date for every input string that
\* is not exactly 12 characters or contains a non-digit, and for 12 digits
\* that are not a calendar date; it returns a date only for 12 digits whose
\* first six form a calendar date.
C2_AsStated ==
    Parsed =>
        /\ ~AllDigits12(arg) => ret = NoDate
        /\ (AllDigits12(arg) /\ ~FirstSixAreADate(arg)) => ret = NoDate
        /\ ret # NoDate => FirstSixAreADate(arg)

\* C2 amended: the length and digit tests apply to the input with its hyphens
\* and spaces removed; parse_mykad_dob returns no date when that is not 12
\* digits or its first six digits are not a calendar date, and returns a
\* date only when it is 12 digits whose first six form a calendar date.
C2_NoDateUnlessNormalizedIsValid ==
    Parsed =>
        /\ ~AllDigits12(Normalized(arg)) => ret = NoDate
        /\ (AllDigits12(Normalized(arg)) /\ ~FirstSixAreADate(Normalized(arg)))
               => ret = NoDate
        /\ ret # NoDate => FirstSixAreADate(Normalized(arg))

\* a hyphenated 14-character input has yielded a date
C2_Witness ==
    /\ Parsed
    /\ Len(arg) = 14
    /\ \E i \in 1..14 : arg[i] = "-"
    /\ ret # NoDate

\* C3: for a 12-digit identifier that yields a date, the year is
\* 2000 + yearSuffix when yearSuffix <= refYY (the clock's year modulo 100)
\* and 1900 + yearSuffix otherwise; month and day are digits 3-4 and 5-6.
C3_CenturyRule ==
    (Parsed /\ AllDigits12(arg) /\ ret # NoDate) =>
        /\ ret.year = (IF TwoDigits(arg, 1) <= today.year % 100
                       THEN 2000 + TwoDigits(arg, 1)
                       ELSE 1900 + TwoDigits(arg, 1))
        /\ ret.month = TwoDigits(arg, 3)
        /\ ret.day = TwoDigits(arg, 5)

\* the suffix equals the clock's two-digit year and resolves to the 2000s
C3_Witness ==
    /\ Parsed /\ AllDigits12(arg) /\ ret # NoDate
    /\ TwoDigits(arg, 1) = today.year % 100
    /\ ret.year = 2000 + TwoDigits(arg, 1)
    /\ today.year = 2024

\* C4 as stated: for every reference date, a derived birth year lies in
\* referenceYear - 99 .. referenceYear.
C4_AsStated ==
    (Parsed /\ ret # NoDate) =>
        (today.year - 99 <= ret.year /\ ret.year <= today.year)

\* C4 amended: for every reference date whose year is in 2000..2099, a
\* derived birth year lies in referenceYear - 99 .. referenceYear.
C4_WindowIn21stCentury ==
    (Parsed /\ ret # NoDate /\ today.year \in 2000..2099) =>
        (today.year - 99 <= ret.year /\ ret.year <= today.year)

\* both ends of the window are derived: the clock's own year, and 99 years back
C4_Witness ==
    /\ Parsed /\ ret # NoDate
    /\ today.year = 2024
    /\ ret.year = 1925

\* the text of a character sequence
RECURSIVE Text(_)
Text(s) == IF Len(s) = 0 THEN "" ELSE Head(s) \o Text(Tail(s))

\* whole months from dob to ref, a month counting once its day is reached
ElapsedMonths(dob, ref) ==
    (12 * ref.year + ref.month) - (12 * dob.year + dob.month)
    - (IF ref.day < dob.day THEN 1 ELSE 0)

C6_AgeRange ==
    (Aged /\ arg # NoDate /\ DateLeq(arg, today)) =>
        /\ Len(split(ret)) = 4
        /\ signed_int(split(ret)[1]) >= 0
        /\ signed_int(split(ret)[3]) \in 0..11

\* December to January with the day not yet reached: months wrap from -12 to 0
C6_Witness ==
    /\ Aged
    /\ arg = Date(2023, 12, 31)
    /\ today = Date(2024, 1, 15)
    /\ signed_int(split(ret)[1]) = 0
    /\ signed_int(split(ret)[3]) = 0

\* C7: clean_id returns "" for empty or absent input, otherwise the input
\* without its hyphens and spaces, the other characters in order; cleaning
\* the result again changes nothing.
C7_CleanId ==
    Cleaned =>
        /\ (arg = None \/ arg = <<>>) => ret = <<>>
        /\ (arg # None /\ arg # <<>>) => ret = SelectSeq(arg, NotSeparator)
        /\ \A i \in 1..Len(ret) : ret[i] # "-" /\ ret[i] # " "
        /\ clean_id(ret) = ret

\* an input with two hyphens has been cleaned to its twelve digits
C7_Witness ==
    /\ Cleaned
    /\ Len(arg) = 14
    /\ Len(ret) = 12
    /\ isdigit(ret)

\* C8: two evaluations of a helper with the same argument return the same
\* result whatever the system time is when they run.
C8_ResultIndependentOfSystemTime ==
    evals >= 2 => ret = prev

----------------------------------------------------------------------------
(* Spec: the record workflow on the worksheet *)

\* The columns of the worksheet the workflow reads or writes.  The header row
\* is taken to hold every column the code names.  ID, Name and MyKad hold
\* free text (character sequences); the other cells hold one of a few fixed
\* texts and can never equal a 14-digit ID.
TextCols == {"ID", "Name", "MyKad"}

IgMOptions == {"Pending", "Positive", "Negative"}
PCROptions == {"Not Done", "Positive", "Negative"}
EpiLinkOptions == {"No", "Yes"}

\* what clinicians type
Names == {<<"A", "L", "I">>}
MyKadInputs == {<<"8", "5", "0", "6", "1", "5", "-", "0", "7", "-", "1", "2", "3", "4">>,
                <<"2", "0", "2", "4", "0", "6", "0", "1", "0", "0", "0", "0", "0", "1">>}

\* datetime.now().strftime("%Y%m%d%H%M%S")
strftime_id(d, s) ==
    ZeroPad(NatToStr(d.year), 4) \o ZeroPad(NatToStr(d.month), 2)
    \o ZeroPad(NatToStr(d.day), 2) \o ZeroPad(NatToStr(s \div 3600), 2)
    \o ZeroPad(NatToStr((s \div 60) % 60), 2) \o ZeroPad(NatToStr(s % 60), 2)

\* selection.split(" - ")[0]
RECURSIVE split_dash_first(_)
split_dash_first(s) ==
    IF Len(s) < 3 THEN s
    ELSE IF SubSeq(s, 1, 3) = <<" ", "-", " ">> THEN <<>>
    ELSE <<Head(s)>> \o split_dash_first(Tail(s))

\* final_class with the epidemiological link tested first
final_class_EpiLinkFirst(lab_igm, lab_pcr, epi_link) ==
    IF epi_link = "Yes" THEN "Epi Linked Measles"
    ELSE IF lab_pcr = "Positive" \/ lab_igm = "Positive" THEN "Lab Confirmed Measles"
    ELSE "Discarded"

\* the classification the finalize handler computes
final_class(lab_igm, lab_pcr, epi_link) ==
    IF lab_pcr = "Positive" \/ lab_igm = "Positive" THEN "Lab Confirmed Measles"
    ELSE IF epi_link = "Yes" THEN "Epi Linked Measles"
    ELSE "Discarded"

\* the updates dict, in insertion order
UpdatesDict(lab_igm, lab_pcr, epi_link) ==
    << [key |-> "Status", value |-> "Finalized"],
       [key |-> "Lab_IgM", value |-> lab_igm],
       [key |-> "Lab_PCR", value |-> lab_pcr],
       [key |-> "Epi_Link", value |-> epi_link],
       [key |-> "Final_Classification",
        value |-> final_class(lab_igm, lab_pcr, epi_link)] >>

\* ws.find(query).row: the first worksheet row with a cell equal to query,
\* 0 when there is none; data row r is worksheet row r + 1
find_row(ws, query) ==
    IF \E r \in 1..Len(ws) : \E h \in TextCols : ws[r][h] = query
    THEN 1 + CHOOSE r \in 1..Len(ws) :
                 /\ \E h \in TextCols : ws[r][h] = query
                 /\ \A q \in 1..(r - 1) : \A h \in TextCols : ws[q][h] # query
    ELSE 0

\* load_data: the frame of all records.  get_all_records reads a digit-only
\* cell as a number and astype(str) writes an ID back as the same digits (an
\* ID starts with the year, so it has no leading zero to lose).
load_data(ws) == ws

\* pending = df[df["Status"] != "Finalized"]
pending(frame) == {r \in 1..Len(frame) : frame[r].Status # "Finalized"}

Init ==
    /\ now = Date(2024, 6, 1)
    /\ secs = 0
    /\ fn = "clean_id"
    /\ arg = <<>>
    /\ ret = <<>>
    /\ prev = <<>>
    /\ today = NoDate
    /\ evals = 0
    /\ ticks = 0
    /\ WfIdle

\* the clinician's "Save & Submit Case": case_data and save_new_case
ClinicianSubmit ==
    \E name \in Names, mykad_raw \in MyKadInputs :
        /\ Len(sheet) < MaxRows
        /\ sheet' = Append(sheet,
                [ID |-> strftime_id(now, secs),
                 Status |-> "Pending_Epi",
                 Name |-> name,
                 MyKad |-> clean_id(mykad_raw),
                 Lab_IgM |-> "",
                 Lab_PCR |-> "",
                 Epi_Link |-> "",
                 Final_Classification |-> "Pending"])
        /\ UNCHANGED <<epc, sel_id, sel_row, row_num, updates, next_key>>
        /\ UNCHANGED <<now, secs, ticks>>
        /\ UNCHANGED helperVars

\* the epidemiologist's "Finalize & Save" run, up to update_case's ws.find
EpiFinalize ==
    /\ epc = "idle"
    /\ \E r \in pending(load_data(sheet)), lab_igm \in IgMOptions,
          lab_pcr \in PCROptions, epi_link \in EpiLinkOptions :
        LET df == load_data(sheet)
            selection == df[r].ID \o <<" ", "-", " ">> \o df[r].Name
            id == split_dash_first(selection)
        IN /\ sel_row' = r
           /\ sel_id' = id
           /\ updates' = UpdatesDict(lab_igm, lab_pcr, epi_link)
           /\ row_num' = find_row(sheet, id)
           /\ IF find_row(sheet, id) # 0
              THEN epc' = "writing" /\ next_key' = 1
              ELSE epc' = "idle" /\ next_key' = 0
    /\ UNCHANGED sheet
    /\ UNCHANGED <<now, secs, ticks>>
    /\ UNCHANGED helperVars

\* one ws.update_cell of update_case's loop; after the last, st.rerun()
UpdateCell ==
    /\ epc = "writing"
    /\ sheet' = [sheet EXCEPT ![row_num - 1][updates[next_key].key] =
                                   updates[next_key].value]
    /\ IF next_key = Len(updates)
       THEN epc' = "idle" /\ next_key' = 0
       ELSE epc' = "writing" /\ next_key' = next_key + 1
    /\ UNCHANGED <<sel_id, sel_row, row_num, updates>>
    /\ UNCHANGED <<now, secs, ticks>>
    /\ UNCHANGED helperVars

\* a second passes
TickSecond ==
    /\ secs < MaxSecs
    /\ secs' = secs + 1
    /\ UNCHANGED <<now, ticks>>
    /\ UNCHANGED helperVars
    /\ UNCHANGED wfVars

Next ==
    \/ ClinicianSubmit
    \/ EpiFinalize
    \/ UpdateCell
    \/ TickSecond

Spec == Init /\ [][Next]_vars

----------------------------------------------------------------------------
(* Properties of the workflow, checked under Spec *)

\* the classification of three findings, by the rule of the specification
ExpectedClass(igm, pcr, epi) ==
    IF "Positive" \in {igm, pcr} THEN "Lab Confirmed Measles"
    ELSE IF epi = "Yes" THEN "Epi Linked Measles"
    ELSE "Discarded"

\* the value the updates dict holds for a key
UpdateOf(k) == (CHOOSE i \in 1..Len(updates) : updates[i].key = k)

\* C1: the classification a finalization writes is Lab Confirmed Measles
\* when PCR or IgM is Positive, else Epi Linked Measles when the link is Yes,
\* else Discarded: in the updates being written, and in the row once
\* update_case has returned.
C1_ClassificationWritten ==
    /\ epc = "writing" =>
           updates[UpdateOf("Final_Classification")].value =
               ExpectedClass(updates[UpdateOf("Lab_IgM")].value,
                             updates[UpdateOf("Lab_PCR")].value,
                             updates[UpdateOf("Epi_Link")].value)
    /\ (epc = "idle" /\ row_num > 0) =>
           sheet[row_num - 1].Final_Classification =
               ExpectedClass(sheet[row_num - 1].Lab_IgM,
                             sheet[row_num - 1].Lab_PCR,
                             sheet[row_num - 1].Epi_Link)

\* a positive IgM with an epidemiological link has been written as lab confirmed
C1_Witness ==
    /\ epc = "idle"
    /\ row_num > 0
    /\ sheet[row_num - 1].Lab_IgM = "Positive"
    /\ sheet[row_num - 1].Lab_PCR = "Negative"
    /\ sheet[row_num - 1].Epi_Link = "Yes"
    /\ sheet[row_num - 1].Final_Classification = "Lab Confirmed Measles"

\* a record whose finalization has been written to its last cell
FullyFinalized(rec) ==
    rec.Status = "Finalized" /\ rec.Final_Classification # "Pending"

\* C9: a record is created Pending_Epi, its status only ever goes from
\* Pending_Epi to Finalized, and once its finalization is written the record
\* is not the target of another finalization and none of its cells changes.
C9_FinalizedIsTerminal ==
    [][ /\ \A r \in (Len(sheet) + 1)..Len(sheet') :
               sheet'[r].Status = "Pending_Epi"
        /\ \A r \in 1..Len(sheet) :
               /\ sheet'[r].Status # sheet[r].Status =>
                      (sheet[r].Status = "Pending_Epi" /\ sheet'[r].Status = "Finalized")
               /\ FullyFinalized(sheet[r]) => sheet'[r] = sheet[r]
        /\ (epc = "idle" /\ epc' = "writing") =>
               ~FullyFinalized(sheet[row_num' - 1]) ]_vars

ClassificationTexts == {"Lab Confirmed Measles", "Epi Linked Measles", "Discarded"}

\* C10: every record of every frame load_data can return is either
\* Pending_Epi with classification "Pending" or Finalized with the
\* classification of its stored findings.
C10_RecordsConsistent ==
    \A r \in 1..Len(load_data(sheet)) :
        LET rec == load_data(sheet)[r] IN
        \/ rec.Status = "Pending_Epi" /\ rec.Final_Classification = "Pending"
        \/ /\ rec.Status = "Finalized"
           /\ rec.Final_Classification \in ClassificationTexts
           /\ rec.Final_Classification =
                  ExpectedClass(rec.Lab_IgM, rec.Lab_PCR, rec.Epi_Link)

\* C11: a finalization changes only the record chosen from the pending list:
\* the IDs of the stored records are pairwise distinct, update_case's lookup
\* lands on the chosen record, and no other record changes.
C11_OnlyChosenRecordChanges ==
    [][ /\ \A r, q \in 1..Len(sheet') :
               r # q => sheet'[r].ID # sheet'[q].ID
        /\ epc' = "writing" => row_num' - 1 = sel_row'
        /\ \A r \in 1..Len(sheet) :
               sheet'[r] # sheet[r] => (epc = "writing" /\ r = sel_row) ]_vars

----------------------------------------------------------------------------
(* Properties of the form run, checked under FormSpec *)

\* C12: when a 12-digit identifier yields a date of birth under the clock
\* date R, that date is not after R, and the age computed from it against R
\* and the integer the under-18 test reads back from the age text are not
\* negative.
C12_DerivedDobNotAfterReference ==
    ( /\ form.pc = "done"
      /\ AllDigits12(form.mykad)
      /\ form.auto_dob # NoDate
      /\ form.dob = form.auto_dob
      /\ form.age_today = form.parse_today ) =>
        /\ DateLeq(form.auto_dob, form.parse_today)
        /\ signed_int(split(form.age_str)[1]) >= 0
        /\ form.years_old >= 0

====
